---- MODULE Spec2Model ----
(***************************************************************************)
(* Session protocol of the sentiment-analysis command-line client          *)
(* (src/src/main.rs): credential loading, credential acquisition with a    *)
(* validation probe, the optional save, the protocol selection and the     *)
(* user-input session loop.                                                *)
(*                                                                         *)
(* The program is single-threaded and blocks at two kinds of points: an    *)
(* inquire prompt and a reqwest call.  A state of the model is the program *)
(* blocked at one of them (pc), and every action is the code that runs     *)
(* from the answer of the operator / of the network up to the next         *)
(* blocking point or the end of the process.                               *)
(***************************************************************************)
EXTENDS Integers, Sequences, FiniteSets, TLC

\* ------------------------------------------------------------------ bounds
\* Longest string the operator types or the credential file holds.
MaxStrLen == 1
\* Credential prompts answered in one run (the code has no maximum).
MaxAttempts == 2
\* Session text prompts answered in one run (the code has no maximum).
MaxRounds == 2

\* --------------------------------------------------------------- constants
\* Exit status of a Rust process whose main thread panics.
PanicStatus == 101

Chars == {"a", "b"}

RECURSIVE StringsUpTo(_)
StringsUpTo(n) ==
    IF n = 0 THEN {<<>>}
    ELSE LET shorter == StringsUpTo(n - 1)
         IN  shorter \cup {Append(s, c) : s \in {t \in shorter : Len(t) = n - 1}, c \in Chars}

\* What a Text prompt can return and what the credential file can hold.
Strings == StringsUpTo(MaxStrLen)

\* The canned text of the validation probe.
ProbeText == <<"p", "r", "o", "b", "e">>

\* Response bodies of the classification endpoint.
Payloads == {"positive", "negative"}

\* HTTP status codes the endpoint answers with.
Statuses == {200, 401, 503}

\* How an inquire prompt ends other than with a value.
PromptErrors == {"Canceled", "Interrupted", "Other"}

\* The outcome of one blocking reqwest call: send() fails, or a response with
\* a status arrives whose body can (body_ok) or cannot be read.
Responses ==
    {[sent |-> FALSE, status |-> 0, body_ok |-> FALSE, body |-> "none"]}
    \cup {[sent |-> TRUE, status |-> s, body_ok |-> FALSE, body |-> "none"] : s \in Statuses}
    \cup {[sent |-> TRUE, status |-> s, body_ok |-> TRUE, body |-> b] : s \in Statuses, b \in Payloads}

\* The credential file: missing, present but unreadable, or present with a content.
Files ==
    {[status |-> "missing", content |-> <<>>], [status |-> "unreadable", content |-> <<>>]}
    \cup {[status |-> "present", content |-> s] : s \in Strings}

VARIABLES
    pc,                  \* where the program blocks, or how it ended
    exit_status,         \* <<>> while running, <<status>> once the process ended
    file,                \* ./saved_key.txt
    api_key_was_saved,   \* main's api_key_was_saved
    huggingface_api_key, \* main's huggingface_api_key: <<>> before it is bound, <<key>> after
    candidate,           \* prompt_user_for_api_key's api_key while its probe is in flight
    user_post,           \* user_input_feed_protocol's user_post
    request,             \* the last request sent: <<>> or <<[kind, inputs, bearer]>>
    result,              \* the last Result of sentiment_analysis_request
    dbg_out,             \* what dbg! printed last: <<>> or <<payload>>
    reports,             \* how many payloads dbg! printed
    last_event,          \* the last prompt answer or network response handled
    validated,           \* credentials whose probe got a success status
    key_prompts,         \* credential prompts answered
    text_prompts,        \* session text prompts answered
    classify_calls,      \* requests sent by sentiment_analysis_request
    probe_calls,         \* probes sent by prompt_user_for_api_key
    writes,              \* successful writes of the credential file
    file_at_start,       \* ./saved_key.txt as the run found it
    should_save_api_key_to_file, \* main's variable: <<>> before it is bound, <<reply>> after
    response             \* the last response received: <<>> or <<response>>

vars == <<pc, exit_status, file, api_key_was_saved, huggingface_api_key, candidate,
          user_post, request, result, dbg_out, reports, last_event, validated,
          key_prompts, text_prompts, classify_calls, probe_calls, writes,
          file_at_start, should_save_api_key_to_file, response>>

NoResult == [tag |-> "None", val |-> "none"]
NoEvent == [at |-> "none", kind |-> "none", yes |-> FALSE]
Event(at, kind, yes) == [at |-> at, kind |-> kind, yes |-> yes]

\* ------------------------------------------------------------ pure helpers
\* std::process::exit(code): the status the parent sees is the low byte.
ExitCode(code) == code % 256

\* reqwest's StatusCode::is_success.
is_success(status) == status >= 200 /\ status < 300

\* Mutant of check_for_api_key_file: the two branches of the emptiness test are
\* exchanged.
check_for_api_key_file_FlagsInverted(f) ==
    LET api_key == IF f.status = "present" THEN f.content ELSE <<>>
    IN  [saved |-> Len(api_key) = 0, key |-> api_key]

\* Mutant of check_for_api_key_file: a file that reads counts as a stored
\* credential even when it is empty.
check_for_api_key_file_NoEmptyCheck(f) ==
    [saved |-> f.status = "present", key |-> IF f.status = "present" THEN f.content ELSE <<>>]

\* check_for_api_key_file: read_to_string(..).unwrap_or_default(), then is_empty.
check_for_api_key_file(f) ==
    LET api_key == IF f.status = "present" THEN f.content ELSE <<>>
    IN  IF Len(api_key) = 0 THEN [saved |-> FALSE, key |-> api_key]
        ELSE [saved |-> TRUE, key |-> api_key]

\* sentiment_analysis_request: Err on a send failure, Ok(body) on a success
\* status whose body reads, a panic (expect) when that body does not read, Err
\* on any other status.
sentiment_analysis_request(resp) ==
    IF ~resp.sent THEN [tag |-> "Err", val |-> "transport"]
    ELSE IF is_success(resp.status)
         THEN IF resp.body_ok THEN [tag |-> "Ok", val |-> resp.body]
              ELSE [tag |-> "Panic", val |-> "none"]
         ELSE [tag |-> "Err", val |-> "status"]

\* ------------------------------------------------------- process endings
Exit(code) ==
    /\ pc' = "Exited"
    /\ exit_status' = <<ExitCode(code)>>

Panic ==
    /\ pc' = "Panicked"
    /\ exit_status' = <<PanicStatus>>

Init ==
    /\ pc = "Start"
    /\ exit_status = <<>>
    /\ file \in Files
    /\ api_key_was_saved = FALSE
    /\ huggingface_api_key = <<>>
    /\ candidate = <<>>
    /\ user_post = <<>>
    /\ request = <<>>
    /\ result = NoResult
    /\ dbg_out = <<>>
    /\ reports = 0
    /\ last_event = NoEvent
    /\ validated = {}
    /\ key_prompts = 0
    /\ text_prompts = 0
    /\ classify_calls = 0
    /\ probe_calls = 0
    /\ writes = 0
    /\ file_at_start = file
    /\ should_save_api_key_to_file = <<>>
    /\ response = <<>>

\* Mutant of AfterLoad: the save block is not guarded by !api_key_was_saved.
AfterLoad_AlwaysAskSave(saved) == IF saved THEN "SaveConfirm" ELSE "Prompting"

\* Lines 204-210: with a stored credential main skips both the credential prompt
\* and the save block and goes on to the protocol selection; without one it
\* prompts for a credential.
AfterLoad(saved) == IF saved THEN "Select" ELSE "Prompting"

\* main, lines 202-209: load the stored credential; with one, go straight to
\* the protocol selection (the save block is skipped), else prompt for one.
LoadKey ==
    /\ pc = "Start"
    /\ LET loaded == check_for_api_key_file(file)
       IN  /\ api_key_was_saved' = loaded.saved
           /\ IF loaded.saved
              THEN huggingface_api_key' = <<loaded.key>>
              ELSE huggingface_api_key' = <<>>
           /\ pc' = AfterLoad(loaded.saved)
    /\ UNCHANGED <<exit_status, file, candidate, user_post, request, result, dbg_out,
                   reports, last_event, validated, key_prompts, text_prompts,
                   classify_calls, probe_calls, writes, file_at_start,
                   should_save_api_key_to_file, response>>

\* ------------------------------------------- credential acquisition (132-166)
\* Mutant of KeyIsValid: only the lower end of the success range is tested.
KeyIsValid_NoUpperBound(resp) == resp.status >= 200

\* Line 149: the branch that decides whether the candidate is returned.
KeyIsValid(resp) == is_success(resp.status)

\* Mutant of KeyPromptFailed: cancellation is handled like any other error.
KeyPromptFailed_NeverExits(kind) ==
    /\ pc' = "Prompting"
    /\ UNCHANGED exit_status

\* Lines 155-163: what a failed credential prompt does.  Cancellation and
\* interruption exit with 0; any other error is printed and the loop goes on.
KeyPromptFailed(kind) ==
    IF kind \in {"Canceled", "Interrupted"}
    THEN Exit(0)
    ELSE /\ pc' = "Prompting"
         /\ UNCHANGED exit_status

\* One answer to Text::new("Enter key here ...").prompt(): a value is sent as the
\* bearer of the probe (lines 140-147), a failure is handled by the match arms.
KeyPromptReply ==
    /\ pc = "Prompting"
    /\ key_prompts < MaxAttempts
    /\ key_prompts' = key_prompts + 1
    /\ \/ \E api_key \in Strings :
            /\ candidate' = api_key
            /\ request' = <<[kind |-> "probe", inputs |-> ProbeText, bearer |-> api_key]>>
            /\ probe_calls' = probe_calls + 1
            /\ pc' = "Validating"
            /\ last_event' = Event("Key", "Ok", FALSE)
            /\ UNCHANGED exit_status
       \/ \E kind \in PromptErrors :
            /\ KeyPromptFailed(kind)
            /\ last_event' = Event("Key", kind, FALSE)
            /\ UNCHANGED <<candidate, request, probe_calls>>
    /\ UNCHANGED <<file, api_key_was_saved, huggingface_api_key, user_post, result,
                   dbg_out, reports, validated, text_prompts, classify_calls, writes,
                   file_at_start, should_save_api_key_to_file, response>>

\* The probe's outcome (lines 147-153) and, when the function returns, main's
\* lines 204-210: send()? hands a transport failure to main's expect, which
\* panics; a success status returns the candidate, which main binds before it
\* asks whether to save; any other status prints a message and prompts again.
ProbeResponse ==
    /\ pc = "Validating"
    /\ \E resp \in Responses :
         /\ response' = <<resp>>
         /\ validated' = IF resp.sent /\ resp.status \in 200..299
                         THEN validated \cup {request[1].bearer}
                         ELSE validated
         /\ IF ~resp.sent
            THEN /\ Panic
                 /\ last_event' = Event("Probe", "transport", FALSE)
                 /\ UNCHANGED huggingface_api_key
            ELSE IF KeyIsValid(resp)
                 THEN /\ huggingface_api_key' = <<candidate>>
                      /\ pc' = "SaveConfirm"
                      /\ last_event' = Event("Probe", "success", FALSE)
                      /\ UNCHANGED exit_status
                 ELSE /\ pc' = "Prompting"
                      /\ last_event' = Event("Probe", "rejected", FALSE)
                      /\ UNCHANGED <<exit_status, huggingface_api_key>>
    /\ UNCHANGED <<file, api_key_was_saved, candidate, user_post, request, result,
                   dbg_out, reports, key_prompts, text_prompts, classify_calls,
                   probe_calls, writes, file_at_start, should_save_api_key_to_file>>

\* ------------------------------------------------------ saving (170-179, 210-229)
\* What fs::write can leave behind when it fails: the file as it was (it could
\* not be created or opened), or created and truncated with only part written.
FailedWrite(f, key) ==
    {f} \cup {[status |-> "present", content |-> SubSeq(key, 1, n)] : n \in 0..(Len(key) - 1)}

\* Mutant of save_api_key_to_file: the credential is appended to what the file
\* holds instead of replacing it.
save_api_key_to_file_Appends(f, key) ==
    [status |-> "present", content |-> (IF f.status = "present" THEN f.content ELSE <<>>) \o key]

\* fs::write(API_KEY_SAVE_PATH, key) when it succeeds: the file is created or
\* truncated and holds exactly the credential, whatever it held before.
save_api_key_to_file(f, key) == [status |-> "present", content |-> key]

\* Mutant of SaveRequested: the credential is written whatever the answer.
SaveRequested_Always(reply) == TRUE

\* Line 226: the credential is written only when the operator answered yes.
SaveRequested(reply) == reply

\* Mutant of AfterSaveAttempt: a failed write ends the process.
AfterSaveAttempt_FailureIsFatal(written) == IF written THEN "Select" ELSE "Exited"

\* Lines 171-178 and 229-232: both arms of save_api_key_to_file only print, and
\* main goes on to the protocol selection whether the write succeeded or not.
AfterSaveAttempt(written) == "Select"

\* One answer to the save confirmation.  Any failure of the prompt exits with -1.
\* On yes, save_api_key_to_file writes the credential; a failed write is printed
\* and the program goes on.
SaveConfirmReply ==
    /\ pc = "SaveConfirm"
    /\ \/ \E reply \in BOOLEAN :
            /\ last_event' = Event("Save", "Ok", reply)
            /\ should_save_api_key_to_file' = <<reply>>
            /\ IF SaveRequested(reply)
               THEN \/ /\ file' = save_api_key_to_file(file, huggingface_api_key[1])
                       /\ writes' = writes + 1
                       /\ pc' = AfterSaveAttempt(TRUE)
                    \/ /\ file' \in FailedWrite(file, huggingface_api_key[1])
                       /\ UNCHANGED writes
                       /\ pc' = AfterSaveAttempt(FALSE)
               ELSE /\ pc' = "Select"
                    /\ UNCHANGED <<file, writes>>
            /\ exit_status' = IF pc' = "Exited" THEN <<ExitCode(-1)>> ELSE exit_status
       \/ \E kind \in PromptErrors :
            /\ last_event' = Event("Save", kind, FALSE)
            /\ Exit(-1)
            /\ UNCHANGED <<file, writes, should_save_api_key_to_file>>
    /\ UNCHANGED <<api_key_was_saved, huggingface_api_key, candidate, user_post, request,
                   result, dbg_out, reports, validated, key_prompts, text_prompts,
                   classify_calls, probe_calls, file_at_start, response>>

\* ------------------------------------------------ protocol selection (231-253)
\* Lines 245-252: the exit code of a failed selection prompt.
SelectFailedCode(kind) == IF kind \in {"Canceled", "Interrupted"} THEN 1 ELSE -1

\* Mutant of AfterSelect: the Online arm runs the user-input protocol.
AfterSelect_OnlineRunsUser(choice) ==
    IF choice \in {"Online", "User"} THEN "AwaitInput" ELSE "Exited"

\* Lines 240-244: Online runs the empty online_feed_protocol, after which main
\* returns and the process ends with status 0; User enters the session loop;
\* Quit exits with 0.
AfterSelect(choice) == IF choice = "User" THEN "AwaitInput" ELSE "Exited"

\* One answer to the selection.
SelectReply ==
    /\ pc = "Select"
    /\ \/ \E choice \in {"Online", "User", "Quit"} :
            /\ last_event' = Event("Select", choice, FALSE)
            /\ IF AfterSelect(choice) = "Exited"
               THEN Exit(0)
               ELSE /\ pc' = AfterSelect(choice)
                    /\ UNCHANGED exit_status
       \/ \E kind \in PromptErrors :
            /\ last_event' = Event("Select", kind, FALSE)
            /\ Exit(SelectFailedCode(kind))
    /\ UNCHANGED <<file, api_key_was_saved, huggingface_api_key, candidate, user_post,
                   request, result, dbg_out, reports, validated, key_prompts,
                   text_prompts, classify_calls, probe_calls, writes, file_at_start,
                   should_save_api_key_to_file, response>>

\* --------------------------------------------------- session loop (36-91)
\* Mutant of TextFailedCode: every failure of the text prompt exits with -1.
TextFailedCode_AlwaysFailure(kind) == -1

\* Lines 45-55: the exit code of a failed text prompt.
TextFailedCode(kind) == IF kind \in {"Canceled", "Interrupted"} THEN 0 ELSE -1

\* Mutant of ClassifyRequest: the two string arguments are taken in the wrong
\* order.
ClassifyRequest_SwappedArguments(text, api_key) ==
    [kind |-> "classify", inputs |-> api_key, bearer |-> text]

\* Lines 58 and 100-103: the request sentiment_analysis_request builds from its
\* text and api_key arguments.
ClassifyRequest(text, api_key) == [kind |-> "classify", inputs |-> text, bearer |-> api_key]

\* One answer to the text prompt: a value is sent to the classifier with the
\* credential as bearer (lines 58, 100-105); a failure ends the process.
TextReply ==
    /\ pc = "AwaitInput"
    /\ text_prompts < MaxRounds
    /\ text_prompts' = text_prompts + 1
    /\ \/ \E text \in Strings :
            /\ user_post' = text
            /\ request' = <<ClassifyRequest(text, huggingface_api_key[1])>>
            /\ classify_calls' = classify_calls + 1
            /\ pc' = "Classifying"
            /\ last_event' = Event("Text", "Ok", FALSE)
            /\ UNCHANGED exit_status
       \/ \E kind \in PromptErrors :
            /\ last_event' = Event("Text", kind, FALSE)
            /\ Exit(TextFailedCode(kind))
            /\ UNCHANGED <<user_post, request, classify_calls>>
    /\ UNCHANGED <<file, api_key_was_saved, huggingface_api_key, candidate, result,
                   dbg_out, reports, validated, key_prompts, probe_calls, writes,
                   file_at_start, should_save_api_key_to_file, response>>

\* Mutant of AfterClassify: the retry confirmation is asked after every call.
AfterClassify_AlwaysConfirm(tag) == "ConfirmRetry"

\* Mutant of AfterClassify: a failed call is sent again without asking.
AfterClassify_ResendOnErr(tag) == IF tag = "Ok" THEN "AwaitInput" ELSE "Classifying"

\* Lines 58-62: where the loop goes with the Result of the call.  Ok is
\* reported with dbg! and the loop starts over; Err asks whether to try again.
AfterClassify(tag) == IF tag = "Ok" THEN "AwaitInput" ELSE "ConfirmRetry"

\* The classifier's answer, through sentiment_analysis_request and the match of
\* lines 58-62.
ClassifyResponse ==
    /\ pc = "Classifying"
    /\ \E resp \in Responses :
         LET outcome == sentiment_analysis_request(resp)
         IN  /\ response' = <<resp>>
             /\ last_event' = Event("Classify", outcome.tag, FALSE)
             /\ IF outcome.tag = "Panic"
                THEN /\ Panic
                     /\ UNCHANGED <<result, dbg_out, reports>>
                ELSE /\ result' = outcome
                     /\ pc' = AfterClassify(outcome.tag)
                     /\ IF outcome.tag = "Ok"
                        THEN /\ dbg_out' = <<outcome.val>>
                             /\ reports' = reports + 1
                        ELSE UNCHANGED <<dbg_out, reports>>
                     /\ UNCHANGED exit_status
    /\ UNCHANGED <<file, api_key_was_saved, huggingface_api_key, candidate, user_post,
                   request, validated, key_prompts, text_prompts, classify_calls,
                   probe_calls, writes, file_at_start, should_save_api_key_to_file>>

\* Lines 85-88: what follows the operator's answer to the retry confirmation.
\* Yes reaches todo!(), which panics; no falls out of the match and the loop
\* starts over at the text prompt.
AfterRetryAnswer(try_again) == IF try_again THEN "Panicked" ELSE "AwaitInput"

\* Lines 72-82: the exit code of a failed retry confirmation.
RetryFailedCode(kind) == IF kind \in {"Canceled", "Interrupted"} THEN -1 ELSE -1

\* One answer to the retry confirmation.
RetryReply ==
    /\ pc = "ConfirmRetry"
    /\ \/ \E try_again \in BOOLEAN :
            /\ last_event' = Event("Retry", "Ok", try_again)
            /\ IF AfterRetryAnswer(try_again) = "Panicked"
               THEN Panic
               ELSE /\ pc' = AfterRetryAnswer(try_again)
                    /\ UNCHANGED exit_status
       \/ \E kind \in PromptErrors :
            /\ last_event' = Event("Retry", kind, FALSE)
            /\ Exit(RetryFailedCode(kind))
    /\ UNCHANGED <<file, api_key_was_saved, huggingface_api_key, candidate, user_post,
                   request, result, dbg_out, reports, validated, key_prompts,
                   text_prompts, classify_calls, probe_calls, writes, file_at_start,
                   should_save_api_key_to_file, response>>

Next ==
    \/ LoadKey
    \/ KeyPromptReply
    \/ ProbeResponse
    \/ SaveConfirmReply
    \/ SelectReply
    \/ TextReply
    \/ ClassifyResponse
    \/ RetryReply

Spec == Init /\ [][Next]_vars

TypeOK ==
    /\ pc \in {"Start", "Prompting", "Validating", "SaveConfirm", "Select", "AwaitInput",
               "Classifying", "ConfirmRetry", "Exited", "Panicked"}
    /\ exit_status \in {<<>>} \cup {<<n>> : n \in 0..255}
    /\ file \in Files
    /\ api_key_was_saved \in BOOLEAN
    /\ huggingface_api_key \in {<<>>} \cup {<<k>> : k \in Strings}
    /\ candidate \in Strings
    /\ user_post \in Strings
    /\ result.tag \in {"None", "Ok", "Err"}
    /\ validated \subseteq Strings
    /\ file_at_start \in Files
    /\ should_save_api_key_to_file \in {<<>>, <<TRUE>>, <<FALSE>>}
    /\ response \in {<<>>} \cup {<<r>> : r \in Responses}
    /\ (pc \in {"Exited", "Panicked"}) = (exit_status # <<>>)

\* =================================================================== claims
Cancelled == {"Canceled", "Interrupted"}
InLoop(p) == p \in {"AwaitInput", "Classifying", "ConfirmRetry"}

\* C1: after a failed classification call, when the operator answers yes to the
\* retry confirmation, the loop is back at the AwaitInput text prompt and the
\* process is still running.
C1_RetryYesReturnsToAwaitInput ==
    (last_event.at = "Retry" /\ last_event.kind = "Ok" /\ last_event.yes)
        => (pc = "AwaitInput" /\ exit_status = <<>>)

\* C2: after a failed classification call, when the operator declines the retry
\* confirmation, or the confirmation is cancelled, interrupted or fails otherwise,
\* the process has terminated with a non-zero exit status (and so never shows the
\* text prompt again).
C2_RetryRefusedTerminatesNonZero ==
    (last_event.at = "Retry" /\ ~(last_event.kind = "Ok" /\ last_event.yes))
        => (pc = "Exited" /\ exit_status # <<>> /\ exit_status # <<0>>)

\* C3: a credential returned by prompt_user_for_api_key is one whose probe, sent
\* with exactly that credential as bearer, got a success status; right after a
\* probe that did not succeed no credential has been returned.
C3_AcquiredOnlyIfProbeSucceeded ==
    /\ (~api_key_was_saved /\ huggingface_api_key # <<>>)
          => huggingface_api_key[1] \in validated
    /\ pc = "SaveConfirm"
          => /\ request = <<[kind |-> "probe", inputs |-> ProbeText,
                             bearer |-> huggingface_api_key[1]]>>
             /\ last_event = Event("Probe", "success", FALSE)
    /\ (last_event.at = "Probe" /\ last_event.kind # "success")
          => huggingface_api_key = <<>>

\* C3 witness: a credential is acquired at the second prompt, after a first
\* candidate was not.
C3_Witness ==
    /\ pc = "SaveConfirm"
    /\ key_prompts = 2
    /\ probe_calls = 2
    /\ huggingface_api_key # <<>>
    /\ huggingface_api_key[1] \in validated

\* C4: every failed validation of a candidate credential, by a non-success status
\* or by a transport failure, leads back to the credential prompt with the process
\* still running.
C4_FailedValidationPromptsAgain ==
    (last_event.at = "Probe" /\ last_event.kind # "success")
        => (pc = "Prompting" /\ exit_status = <<>>)

\* C5: a failure of the credential prompt that is neither cancellation nor
\* interruption ends the process with a failure status; the operator is not
\* prompted again.
C5_OtherKeyPromptErrorIsFatal ==
    (last_event.at = "Key" /\ last_event.kind = "Other")
        => (pc = "Exited" /\ exit_status # <<>> /\ exit_status # <<0>>)

C7_CancelAtFirstTextPrompt ==
    (last_event.at = "Text" /\ last_event.kind \in Cancelled /\ text_prompts = 1)
        => /\ pc = "Exited"
           /\ exit_status = <<0>>
           /\ classify_calls = 0
           /\ \A i \in 1..Len(request) : request[i].kind # "classify"

\* C7 witness: the first text prompt was cancelled.
C7_Witness ==
    /\ last_event.at = "Text"
    /\ last_event.kind \in Cancelled
    /\ text_prompts = 1
    /\ pc = "Exited"

\* C8: every classification call that returns Ok is followed by the report of its
\* payload, with the loop back at the text prompt and the process running, and the
\* next thing the program handles is the answer to that text prompt.
C8_OkReportedThenAwaitInput ==
    [][ /\ (pc = "Classifying" /\ last_event'.kind = "Ok")
            => /\ pc' = "AwaitInput"
               /\ exit_status' = <<>>
               /\ reports' = reports + 1
               /\ result'.tag = "Ok"
               /\ dbg_out' = <<result'.val>>
        /\ (last_event.at = "Classify" /\ last_event.kind = "Ok")
            => (pc = "AwaitInput" /\ last_event'.at = "Text")
      ]_vars

\* C8 witness: a first call returned Ok and was reported, and the second text
\* prompt was answered right after it.
C8_Witness ==
    /\ result.tag = "Ok"
    /\ reports = 1
    /\ dbg_out = <<result.val>>
    /\ text_prompts = 2
    /\ classify_calls = 2
    /\ last_event.at = "Text"

\* C9: once in the session loop, the process leaves it only by a failure of the
\* text prompt, or by a decline or a failure of the retry confirmation.
C9_LoopExitsOnlyThroughPrompts ==
    [][ (InLoop(pc) /\ ~InLoop(pc'))
            => \/ pc = "AwaitInput" /\ last_event'.kind \in PromptErrors
               \/ /\ pc = "ConfirmRetry"
                  /\ \/ last_event'.kind \in PromptErrors
                     \/ last_event'.kind = "Ok" /\ ~last_event'.yes
      ]_vars

\* C10: the process only ever ends by an exit with a defined status, never by a
\* panic.
C10_NoPanic ==
    /\ pc # "Panicked"
    /\ exit_status # <<>> => pc = "Exited"

\* C11: no failed classification is retried automatically.  Every text the
\* operator supplies results in exactly one request (the requests sent are the
\* text prompts answered with a value), and a failed call is followed by the
\* retry confirmation, asked once: the next thing handled after the failure is
\* the answer to that confirmation, and the next thing after that answer, if
\* any, is the answer to a text prompt.
C11_NoAutomaticRetry ==
    [][ /\ classify_calls' =
             IF last_event'.at = "Text" /\ last_event'.kind \in PromptErrors
             THEN text_prompts' - 1 ELSE text_prompts'
        /\ classify_calls' > classify_calls
             => /\ classify_calls' = classify_calls + 1
                /\ last_event' = Event("Text", "Ok", FALSE)
        /\ (pc = "Classifying" /\ last_event'.kind = "Err")
             => (pc' = "ConfirmRetry" /\ exit_status' = <<>> /\ classify_calls' = classify_calls)
        /\ (last_event.at = "Classify" /\ last_event.kind = "Err")
             => (pc = "ConfirmRetry" /\ last_event'.at = "Retry")
        /\ last_event.at = "Retry"
             => (last_event'.at = "Text" /\ pc = "AwaitInput")
      ]_vars

\* C11 witness: a first call failed, the confirmation was answered once, and a
\* second text was supplied and sent.
C11_Witness ==
    /\ last_event = Event("Text", "Ok", FALSE)
    /\ result.tag = "Err"
    /\ text_prompts = 2
    /\ classify_calls = 2
    /\ pc = "Classifying"
\* C12: when the operator agrees to save and the write fails, the process does
\* not exit: it is at the protocol selection, still holding the acquired
\* credential, and the file does not hold that credential as a stored one.
C12_SaveFailureIsNotFatal ==
    [][ (pc = "SaveConfirm" /\ last_event' = Event("Save", "Ok", TRUE) /\ writes' = writes)
            => /\ pc' = "Select"
               /\ exit_status' = <<>>
               /\ huggingface_api_key' = huggingface_api_key
               /\ huggingface_api_key' # <<>>
               /\ check_for_api_key_file(file') #
                      [saved |-> TRUE, key |-> huggingface_api_key'[1]]
      ]_vars

\* C12 witness: the operator said yes, nothing was written, and the program is
\* at the protocol selection with its credential.
C12_Witness ==
    /\ last_event = Event("Save", "Ok", TRUE)
    /\ writes = 0
    /\ pc = "Select"
    /\ huggingface_api_key # <<>>
    /\ file = file_at_start
NoStoredCredential == [saved |-> FALSE, key |-> <<>>]

\* C13: check_for_api_key_file gives the same result, no stored credential, for
\* a missing, an unreadable and an empty credential file; main then runs the
\* credential prompt; and loading never ends the process.
C13_MissingUnreadableEmptyAlike ==
    [][ pc = "Start"
            => /\ exit_status' = <<>>
               /\ pc' \notin {"Exited", "Panicked"}
               /\ (file.status \in {"missing", "unreadable"} \/ file.content = <<>>)
                     => /\ check_for_api_key_file(file) = NoStoredCredential
                        /\ ~api_key_was_saved'
                        /\ huggingface_api_key' = <<>>
                        /\ pc' = "Prompting"
      ]_vars

\* C13 witness: the file is there and empty, and the credential prompt is shown.
C13_Witness ==
    /\ file_at_start = [status |-> "present", content |-> <<>>]
    /\ pc = "Prompting"
    /\ key_prompts = 0
    /\ ~api_key_was_saved
\* What C14 says of a credential that was saved successfully: loading the file
\* returns it as a stored credential, and so does loading after saving it again.
SavedRoundTrips(key) ==
    /\ check_for_api_key_file(file) = [saved |-> TRUE, key |-> key]
    /\ check_for_api_key_file(save_api_key_to_file(file, key)) = [saved |-> TRUE, key |-> key]

\* C14 as stated: for every credential that was acquired and saved successfully,
\* loading returns that credential as stored, and saving it again and loading
\* returns it again.
C14_SaveThenLoadReturnsValue ==
    writes >= 1 => SavedRoundTrips(huggingface_api_key[1])

\* C14 as amended: the same, for every non-empty credential.
C14_SaveThenLoadReturnsNonEmptyValue ==
    (writes >= 1 /\ huggingface_api_key[1] # <<>>) => SavedRoundTrips(huggingface_api_key[1])

\* C14 witness: a non-empty credential was acquired and saved, and the file
\* holds it.
C14_Witness ==
    /\ writes = 1
    /\ huggingface_api_key # <<>>
    /\ huggingface_api_key[1] # <<>>
    /\ file = [status |-> "present", content |-> huggingface_api_key[1]]
    /\ file_at_start.status = "missing"
\* C15: when the credential file is absent at startup and the operator declines
\* the save confirmation after a credential was acquired, the file is absent in
\* every later state of the run and nothing was written.
C15_DeclinedSaveLeavesFileAbsent ==
    (file_at_start.status = "missing" /\ should_save_api_key_to_file = <<FALSE>>)
        => /\ file.status = "missing"
           /\ file = file_at_start
           /\ writes = 0
           /\ huggingface_api_key # <<>>

\* C15 witness: the file was absent, the operator declined to save, and the run
\* has gone on into the session loop and sent a request.
C15_Witness ==
    /\ file_at_start.status = "missing"
    /\ should_save_api_key_to_file = <<FALSE>>
    /\ file.status = "missing"
    /\ classify_calls >= 1
\* C16: each call of sentiment_analysis_request ends in exactly one of Ok and
\* Err.  A transport failure and a non-success status both give Err, and the
\* loop handles both by asking the retry confirmation; a success status gives Ok.
C16_ExactlyOneOfOkErr ==
    last_event.at = "Classify"
        => /\ last_event.kind \in {"Ok", "Err"}
           /\ result.tag = last_event.kind
           /\ (~response[1].sent \/ response[1].status \notin 200..299)
                 => (last_event.kind = "Err" /\ pc = "ConfirmRetry")
           /\ (response[1].sent /\ response[1].status \in 200..299)
                 => last_event.kind = "Ok"
\* C17: the credential, once main holds it, never changes, and every
\* classification request of the session loop carries it: the value read from
\* the file when one was stored, the value returned by the credential prompt
\* otherwise.
C17_CredentialNeverMutated ==
    [][ /\ huggingface_api_key # <<>> => huggingface_api_key' = huggingface_api_key
        /\ huggingface_api_key' # <<>>
             => huggingface_api_key'[1] =
                   IF api_key_was_saved' THEN file_at_start'.content ELSE candidate'
        /\ (request' # <<>> /\ request'[1].kind = "classify")
             => /\ huggingface_api_key' # <<>>
                /\ request'[1].bearer = huggingface_api_key'[1]
                /\ request'[1].inputs = user_post'
      ]_vars

\* C17 witness: the second request of a session carries the credential that was
\* acquired at the prompt.
C17_Witness ==
    /\ classify_calls = 2
    /\ pc = "Classifying"
    /\ ~api_key_was_saved
    /\ request[1].kind = "classify"
    /\ request[1].bearer = candidate
    /\ request[1].bearer # request[1].inputs
\* C18: the session loop is entered only with a credential that is either the
\* non-empty content of the credential file, used without any probe or
\* credential prompt, or a value whose probe succeeded; and with a non-empty
\* stored credential the credential prompt is never shown.
C18_LoopOnlyWithLoadedOrValidatedKey ==
    /\ InLoop(pc)
          => /\ huggingface_api_key # <<>>
             /\ \/ /\ api_key_was_saved
                   /\ file_at_start.status = "present"
                   /\ huggingface_api_key[1] = file_at_start.content
                   /\ huggingface_api_key[1] # <<>>
                   /\ probe_calls = 0
                   /\ validated = {}
                \/ /\ ~api_key_was_saved
                   /\ huggingface_api_key[1] \in validated
                   /\ probe_calls >= 1
    /\ (file_at_start.status = "present" /\ file_at_start.content # <<>>)
          => /\ key_prompts = 0
             /\ probe_calls = 0
             /\ pc \notin {"Prompting", "Validating", "SaveConfirm"}
             /\ last_event.at \notin {"Key", "Probe"}

\* C18 witness: the loop was entered with a credential loaded from the file and
\* no probe was ever sent.
C18_Witness ==
    /\ pc = "Classifying"
    /\ api_key_was_saved
    /\ probe_calls = 0
    /\ request[1].bearer = file_at_start.content
\* C19: the save confirmation is asked, and the credential file written, only in
\* runs that loaded no stored credential; in a run that loaded one the file
\* stays as it was; and in every run the file changes at most once, at the save
\* confirmation, after a credential was acquired and the operator answered yes.
C19_FileWrittenOnlyOnYes ==
    [][ /\ (pc' = "SaveConfirm" \/ should_save_api_key_to_file' # <<>>) => ~api_key_was_saved'
        /\ api_key_was_saved' => (file' = file_at_start' /\ writes' = 0)
        /\ writes' <= 1
        /\ (file' # file \/ writes' # writes)
             => /\ pc = "SaveConfirm"
                /\ file = file_at_start
                /\ writes = 0
                /\ ~api_key_was_saved
                /\ huggingface_api_key # <<>>
                /\ huggingface_api_key[1] \in validated
                /\ should_save_api_key_to_file = <<>>
                /\ should_save_api_key_to_file' = <<TRUE>>
        /\ should_save_api_key_to_file # <<>>
             => (file' = file /\ writes' = writes /\ pc' # "SaveConfirm")
      ]_vars

\* C19 witness: no credential was stored, one was acquired and written on yes,
\* and the run went on into the session loop.
C19_Witness ==
    /\ ~api_key_was_saved
    /\ should_save_api_key_to_file = <<TRUE>>
    /\ writes = 1
    /\ file # file_at_start
    /\ file.content = huggingface_api_key[1]
    /\ InLoop(pc)
\* C20: the protocol selection is reached only with a credential held and the
\* save decision, if one was due, made; the session loop is entered, and a
\* classification request sent, only after the operator selected User; and
\* selecting Online or Quit ends the process, with nothing after it.
C20_SelectionGatesTheLoop ==
    [][ /\ pc' = "Select"
             => /\ huggingface_api_key' # <<>>
                /\ ~api_key_was_saved' => should_save_api_key_to_file' # <<>>
        /\ (~InLoop(pc) /\ InLoop(pc'))
             => (pc = "Select" /\ last_event' = Event("Select", "User", FALSE))
        /\ classify_calls' > classify_calls => pc = "AwaitInput"
        /\ (request' # <<>> /\ request'[1].kind = "classify") => InLoop(pc)
        /\ (pc = "Select" /\ last_event'.kind \in {"Online", "Quit"})
             => /\ pc' = "Exited"
                /\ exit_status' = <<0>>
                /\ classify_calls' = 0
                /\ request' = request
                /\ probe_calls' = probe_calls
        /\ ~(last_event.at = "Select" /\ last_event.kind \in {"Online", "Quit"})
      ]_vars

\* C20 witness: the operator selected Online and the process has ended without a
\* classification request.
C20_Witness ==
    /\ last_event = Event("Select", "Online", FALSE)
    /\ pc = "Exited"
    /\ exit_status = <<0>>
    /\ classify_calls = 0
    /\ huggingface_api_key # <<>>
====
